---- MODULE Spec2Model ----
(***************************************************************************)
(* CdkStackStack (cdk-stack/cdk_stack/cdk_stack_stack.py): the resources   *)
(* the stack declares, the references between them, and the life of the    *)
(* stack under a provisioning engine: create in reference order, run the   *)
(* BucketDeployment asset sync (upload, then cache invalidation), serve    *)
(* viewers through the Distribution, redeploy new frontend builds, and     *)
(* tear the stack down.                                                    *)
(*                                                                         *)
(* The declarations are the constant part (what __init__ leaves behind in  *)
(* the construct tree); the variables are what exists in the account.      *)
(***************************************************************************)
EXTENDS Naturals, FiniteSets, Sequences, TLC

\* Number of frontend builds ("../aws-site-frontend/build" contents) that are
\* deployed one after the other: 1 is the first deploy, the rest are redeploys.
MaxBuilds == 3

VARIABLES
    phase,          \* "create": the stack is being or has been deployed; "delete": torn down
    exists,         \* logical ids of the resources that exist in the account
    orphaned,       \* resources a teardown left in place (removal policy RETAIN)
    inlinePolicies, \* role id -> inline policy documents in effect on that role
    routes,         \* method bindings of the deployed API: [path, method, integration]
    bucketPublic,   \* whether the Bucket is publicly readable
    bucketGrants,   \* grants on the Bucket: [principal, actions]
    build,          \* the frontend build the current deploy carries (1..MaxBuilds)
    deployPc,       \* position of the BucketDeployment handler: "idle", "uploaded", "invalidated"
    objects,        \* build held by the Bucket (0: the Bucket is empty)
    completed,      \* build uploaded by the latest completed deploy (0: none yet)
    edgeCache       \* build cached at the Distribution's edge (0: nothing cached)

vars == <<phase, exists, orphaned, inlinePolicies, routes, bucketPublic, bucketGrants,
          build, deployPc, objects, completed, edgeCache>>

-----------------------------------------------------------------------------
(* The declarations of CdkStackStack.__init__ *)

\* dynamodb.Table(self, 'Foods', ...)
FoodsTable ==
    [id |-> "Foods", table_name |-> "Foods", partition_key |-> "id",
     removal_policy |-> "DESTROY"]

\* dynamodb.Table(self, 'Users', ...)
UsersTable ==
    [id |-> "Users", table_name |-> "Users", partition_key |-> "id",
     removal_policy |-> "DESTROY"]

\* Every dynamodb.Table declaration of the stack.
Tables == {FoodsTable, UsersTable}

TableIds == {t.id : t \in Tables}

TableNames == {t.table_name : t \in Tables}

\* The tables the class docstring announces.
DocstringTables == {"Metadata", "Foods", "Users"}

\* f"arn:aws:dynamodb:{self.region}:{self.account}:table/<name>"
TableArn(name) ==
    [partition |-> "aws", service |-> "dynamodb", region |-> "self.region",
     account |-> "self.account", resource |-> <<"table", name>>]

\* The table an ARN names: the part after "table/".
ArnTableName(arn) == arn.resource[2]

\* Whether a resource ARN of a statement has a wildcard in it.
IsWildcard(arn) ==
    "*" \in {arn.partition, arn.service, arn.region, arn.account,
             arn.resource[1], arn.resource[2]}

\* The statement's actions with table administration among them.
PolicyActionsWithAdmin ==
    {"dynamodb:GetItem", "dynamodb:PutItem", "dynamodb:UpdateItem",
     "dynamodb:DeleteItem", "dynamodb:Scan", "dynamodb:Query", "dynamodb:DeleteTable"}

\* actions=[...] of the PolicyStatement
PolicyActions ==
    {"dynamodb:GetItem", "dynamodb:PutItem", "dynamodb:UpdateItem",
     "dynamodb:DeleteItem", "dynamodb:Scan", "dynamodb:Query"}

\* resources=[...] of the PolicyStatement
PolicyResources ==
    {TableArn("Metadata"), TableArn("Foods"), TableArn("Users")}

\* iam.Policy(self, 'FoodSuggestionFunctionPolicy', statements=[iam.PolicyStatement(...)])
FoodSuggestionFunctionPolicy ==
    [policy_name |-> "FoodSuggestionFunctionPolicy",
     statements  |-> {[effect |-> "Allow", actions |-> PolicyActions,
                       resources |-> PolicyResources]}]

\* iam.Role(self, "FoodSuggestionFunctionRole", ...)
FoodSuggestionFunctionRole ==
    [id |-> "FoodSuggestionFunctionRole", assumed_by |-> "lambda.amazonaws.com",
     managed_policies |-> {"service-role/AWSLambdaBasicExecutionRole"}]

\* _lambda.Function(self, 'FoodSuggestionFunction', ...)
FoodSuggestionFunction ==
    [id |-> "FoodSuggestionFunction", runtime |-> "python3.12",
     handler |-> "food_suggestion_function.handler", layers |-> {"LambdaLayer"},
     role |-> "FoodSuggestionFunctionRole"]

\* apigateway.LambdaRestApi(self, 'AwsSiteApiGateway', handler=..., proxy=False,
\* default_cors_preflight_options={...})
AwsSiteApiGateway ==
    [id |-> "AwsSiteApiGateway", handler |-> "FoodSuggestionFunction", proxy |-> FALSE,
     default_cors_preflight_options |-> TRUE]

\* api_gateway.root.add_resource("food_suggestion")
ChildResources == {"/food_suggestion"}

\* The added methods with the last add_method left out.
AddedMethodsNoPost == <<"GET", "PUT", "DELETE">>

\* food_suggestion_resource.add_method(...), in declaration order
AddedMethods == <<"GET", "PUT", "DELETE", "POST">>

SeqToSet(s) == {s[i] : i \in 1..Len(s)}

\* The method bindings one API resource gets when it is created: the methods
\* add_method registered on it, each on the API's default integration (the
\* handler of the LambdaRestApi), and, with default CORS preflight options on
\* the API, the OPTIONS preflight method, which answers from a mock integration.
ResourceMethods(path) ==
    LET added == IF path \in ChildResources
                 THEN {[path |-> path, method |-> m, integration |-> AwsSiteApiGateway.handler] :
                          m \in SeqToSet(AddedMethods)}
                 ELSE {}
        preflight == IF AwsSiteApiGateway.default_cors_preflight_options
                     THEN {[path |-> path, method |-> "OPTIONS", integration |-> "Mock"]}
                     ELSE {}
    IN  added \cup preflight

\* The bucket declared publicly readable.
ReactApplicationBucketPublic ==
    [id |-> "ReactApplicationBucket", access_control |-> "PUBLIC_READ",
     removal_policy |-> "DESTROY", auto_delete_objects |-> TRUE]

\* The bucket declared without auto_delete_objects.
ReactApplicationBucketNoPurge ==
    [id |-> "ReactApplicationBucket", access_control |-> "PRIVATE",
     removal_policy |-> "DESTROY", auto_delete_objects |-> FALSE]

\* s3.Bucket(self, "ReactApplicationBucket", ...)
ReactApplicationBucket ==
    [id |-> "ReactApplicationBucket", access_control |-> "PRIVATE",
     removal_policy |-> "DESTROY", auto_delete_objects |-> TRUE]

\* cloudfront.Distribution(self, "Distribution", ...)
Distribution ==
    [id |-> "Distribution", default_root_object |-> "index.html",
     origin |-> "ReactApplicationBucket", origin_access_identity |-> "OriginAccessIdentity"]

\* The deployment declared without distribution and distribution_paths: an
\* upload with no cache invalidation.
BucketDeploymentUnbound ==
    [id |-> "BucketDeployment", destination_bucket |-> "ReactApplicationBucket",
     distribution |-> "none", distribution_paths |-> {}]

\* s3_deployment.BucketDeployment(self, "BucketDeployment", ...)
BucketDeployment ==
    [id |-> "BucketDeployment", destination_bucket |-> "ReactApplicationBucket",
     distribution |-> "Distribution", distribution_paths |-> {"/*"}]

\* CfnOutput(self, <name>, value=<attribute of a resource>)
Outputs ==
    {[id |-> "CloudFrontURL", of |-> "Distribution"],
     [id |-> "ApiUrl", of |-> "AwsSiteApiGateway"],
     [id |-> "ApiResourcePath", of |-> "/food_suggestion"]}

OutputIds == {o.id : o \in Outputs}

\* Every declaration of the stack, by logical id.
Declared ==
    TableIds \cup
    {"LambdaLayer", "FoodSuggestionFunctionRole", "FoodSuggestionFunctionPolicy",
     "FoodSuggestionFunction", "AwsSiteApiGateway", "/food_suggestion",
     "ReactApplicationBucket", "OriginAccessIdentity", "BucketReadGrant",
     "Distribution", "BucketDeployment"} \cup OutputIds

\* The references of the API chain with the function built without its role.
ApiChainReferencesNoRole ==
    {<<FoodSuggestionFunctionPolicy.policy_name, FoodSuggestionFunctionRole.id>>} \cup
    {<<FoodSuggestionFunction.id, l>> : l \in FoodSuggestionFunction.layers} \cup
    {<<AwsSiteApiGateway.id, AwsSiteApiGateway.handler>>} \cup
    UNION {{<<c, AwsSiteApiGateway.id>>, <<c, AwsSiteApiGateway.handler>>} :
              c \in ChildResources}

\* References of the API chain: the inline policy is attached to the role
\* (attach_inline_policy), the function is given its layer and its role, the
\* LambdaRestApi its handler, and the child resource hangs off the API's root
\* and integrates the handler.
ApiChainReferences ==
    {<<FoodSuggestionFunctionPolicy.policy_name, FoodSuggestionFunctionRole.id>>} \cup
    {<<FoodSuggestionFunction.id, l>> : l \in FoodSuggestionFunction.layers} \cup
    {<<FoodSuggestionFunction.id, FoodSuggestionFunction.role>>} \cup
    {<<AwsSiteApiGateway.id, AwsSiteApiGateway.handler>>} \cup
    UNION {{<<c, AwsSiteApiGateway.id>>, <<c, AwsSiteApiGateway.handler>>} :
              c \in ChildResources}

\* The references of the static content pipeline with the distribution built
\* without its origin bucket and identity.
StaticPipelineReferencesNoOrigin ==
    {<<"BucketReadGrant", ReactApplicationBucket.id>>,
     <<"BucketReadGrant", "OriginAccessIdentity">>,
     <<BucketDeployment.id, BucketDeployment.destination_bucket>>,
     <<BucketDeployment.id, BucketDeployment.distribution>>}

\* References of the static content pipeline: grant_read names the bucket and
\* the identity, the distribution its origin bucket and the identity, the
\* deployment its destination bucket and, when bound, the distribution.
StaticPipelineReferences ==
    {<<"BucketReadGrant", ReactApplicationBucket.id>>,
     <<"BucketReadGrant", "OriginAccessIdentity">>,
     <<Distribution.id, Distribution.origin>>,
     <<Distribution.id, Distribution.origin_access_identity>>,
     <<BucketDeployment.id, BucketDeployment.destination_bucket>>} \cup
    (IF BucketDeployment.distribution = "none" THEN {}
     ELSE {<<BucketDeployment.id, BucketDeployment.distribution>>})

\* Each output references the resource whose attribute it publishes.
OutputReferences == {<<o.id, o.of>> : o \in Outputs}

\* The references with one more: the bucket made to wait for its deployment.
ReferencesCyclic ==
    ApiChainReferences \cup StaticPipelineReferences \cup OutputReferences \cup
    {<<ReactApplicationBucket.id, BucketDeployment.id>>}

\* Every reference between two declarations of the stack: <<from, to>>.
References == ApiChainReferences \cup StaticPipelineReferences \cup OutputReferences

\* The declarations a declaration references (the objects passed to it).
Refs(r) == {e[2] : e \in {f \in References : f[1] = r}}

\* The kind of resource a declaration makes.
Kind(r) ==
    CASE r \in TableIds -> "Table"
      [] r = FoodSuggestionFunction.id -> "Function"
      [] r = AwsSiteApiGateway.id -> "RestApi"
      [] r \in ChildResources -> "ApiResource"
      [] r = ReactApplicationBucket.id -> "Bucket"
      [] r = Distribution.id -> "Distribution"
      [] OTHER -> "Other"

\* removal_policy of a declaration; a declaration without one is deleted with the stack.
RemovalPolicy(r) ==
    IF r \in TableIds THEN (CHOOSE t \in Tables : t.id = r).removal_policy
    ELSE IF r = "ReactApplicationBucket" THEN ReactApplicationBucket.removal_policy
    ELSE "DESTROY"

-----------------------------------------------------------------------------
(* The account: what the provisioning engine has made of the declarations *)

StackComplete == Declared \subseteq exists

\* The resources the stack still manages.
Managed == exists \ orphaned

\* s3 permissions of Bucket.grant_read
BucketReadActions == {"s3:GetObject*", "s3:GetBucket*", "s3:List*"}

\* s3 permissions of Bucket.grant_read_write
BucketReadWriteActions ==
    BucketReadActions \cup {"s3:PutObject*", "s3:DeleteObject*", "s3:Abort*"}

\* s3 permissions the auto_delete_objects provider holds on its bucket
AutoDeleteActions == {"s3:DeleteObject*", "s3:GetBucket*", "s3:List*", "s3:PutBucketPolicy"}

\* frontend_bucket.grant_read(origin_access_identity)
OriginAccessIdentityGrant ==
    [principal |-> "OriginAccessIdentity", actions |-> BucketReadActions]

\* The grant a BucketDeployment gives its handler on destination_bucket.
DeploymentHandlerGrant ==
    [principal |-> "BucketDeploymentHandler", actions |-> BucketReadWriteActions]

\* The grant auto_delete_objects=True gives its provider on the bucket.
AutoDeleteGrant ==
    [principal |-> "AutoDeleteObjectsProvider", actions |-> AutoDeleteActions]

\* The principals that can read the Bucket's objects.
ObjectReaders == {g.principal : g \in {h \in bucketGrants : "s3:GetObject*" \in h.actions}}

Init ==
    /\ phase = "create"
    /\ exists = {}
    /\ orphaned = {}
    /\ inlinePolicies = [r \in {FoodSuggestionFunctionRole.id} |-> {}]
    /\ routes = {}
    /\ bucketPublic = FALSE
    /\ bucketGrants = {}
    /\ build = 1
    /\ deployPc = "idle"
    /\ objects = 0
    /\ completed = 0
    /\ edgeCache = 0

\* The engine creates a resource once every resource it references exists.
Creatable(r) ==
    /\ phase = "create"
    /\ r \in Declared
    /\ r \notin exists
    /\ Refs(r) \subseteq exists

CreateTable(t) ==
    /\ t \in TableIds
    /\ Creatable(t)
    /\ exists' = exists \cup {t}
    /\ UNCHANGED <<phase, orphaned, inlinePolicies, routes, bucketPublic, bucketGrants,
                   build, deployPc, objects, completed, edgeCache>>

CreateLambdaLayer ==
    /\ Creatable("LambdaLayer")
    /\ exists' = exists \cup {"LambdaLayer"}
    /\ UNCHANGED <<phase, orphaned, inlinePolicies, routes, bucketPublic, bucketGrants,
                   build, deployPc, objects, completed, edgeCache>>

CreateRole ==
    /\ Creatable(FoodSuggestionFunctionRole.id)
    /\ exists' = exists \cup {FoodSuggestionFunctionRole.id}
    /\ UNCHANGED <<phase, orphaned, inlinePolicies, routes, bucketPublic, bucketGrants,
                   build, deployPc, objects, completed, edgeCache>>

\* The policy resource, and with it food_suggestion_function_role.attach_inline_policy:
\* from here on the statements are in effect on the role.
CreatePolicy ==
    /\ Creatable("FoodSuggestionFunctionPolicy")
    /\ exists' = exists \cup {"FoodSuggestionFunctionPolicy"}
    /\ inlinePolicies' =
          [inlinePolicies EXCEPT ![FoodSuggestionFunctionRole.id] =
              @ \cup {FoodSuggestionFunctionPolicy}]
    /\ UNCHANGED <<phase, orphaned, routes, bucketPublic, bucketGrants,
                   build, deployPc, objects, completed, edgeCache>>

CreateFunction ==
    /\ Creatable(FoodSuggestionFunction.id)
    /\ exists' = exists \cup {FoodSuggestionFunction.id}
    /\ UNCHANGED <<phase, orphaned, inlinePolicies, routes, bucketPublic, bucketGrants,
                   build, deployPc, objects, completed, edgeCache>>

\* The RestApi with its root resource "/".
CreateRestApi ==
    /\ Creatable(AwsSiteApiGateway.id)
    /\ exists' = exists \cup {AwsSiteApiGateway.id}
    /\ routes' = routes \cup ResourceMethods("/")
    /\ UNCHANGED <<phase, orphaned, inlinePolicies, bucketPublic, bucketGrants,
                   build, deployPc, objects, completed, edgeCache>>

\* A child resource of the root, with the methods added to it.
CreateApiResource(path) ==
    /\ path \in ChildResources
    /\ Creatable(path)
    /\ exists' = exists \cup {path}
    /\ routes' = routes \cup ResourceMethods(path)
    /\ UNCHANGED <<phase, orphaned, inlinePolicies, bucketPublic, bucketGrants,
                   build, deployPc, objects, completed, edgeCache>>

CreateBucket ==
    /\ Creatable(ReactApplicationBucket.id)
    /\ exists' = exists \cup {ReactApplicationBucket.id}
    /\ bucketPublic' = (ReactApplicationBucket.access_control = "PUBLIC_READ")
    /\ bucketGrants' = IF ReactApplicationBucket.auto_delete_objects
                       THEN bucketGrants \cup {AutoDeleteGrant}
                       ELSE bucketGrants
    /\ UNCHANGED <<phase, orphaned, inlinePolicies, routes,
                   build, deployPc, objects, completed, edgeCache>>

CreateOriginAccessIdentity ==
    /\ Creatable("OriginAccessIdentity")
    /\ exists' = exists \cup {"OriginAccessIdentity"}
    /\ UNCHANGED <<phase, orphaned, inlinePolicies, routes, bucketPublic, bucketGrants,
                   build, deployPc, objects, completed, edgeCache>>

\* frontend_bucket.grant_read(origin_access_identity): the bucket's policy.
GrantRead ==
    /\ Creatable("BucketReadGrant")
    /\ exists' = exists \cup {"BucketReadGrant"}
    /\ bucketGrants' = bucketGrants \cup {OriginAccessIdentityGrant}
    /\ UNCHANGED <<phase, orphaned, inlinePolicies, routes, bucketPublic,
                   build, deployPc, objects, completed, edgeCache>>

CreateDistribution ==
    /\ Creatable(Distribution.id)
    /\ exists' = exists \cup {Distribution.id}
    /\ UNCHANGED <<phase, orphaned, inlinePolicies, routes, bucketPublic, bucketGrants,
                   build, deployPc, objects, completed, edgeCache>>

CreateOutput(o) ==
    /\ o \in OutputIds
    /\ Creatable(o)
    /\ exists' = exists \cup {o}
    /\ UNCHANGED <<phase, orphaned, inlinePolicies, routes, bucketPublic, bucketGrants,
                   build, deployPc, objects, completed, edgeCache>>

\* BucketDeployment, first step: the handler uploads the build to destination_bucket.
\* It runs when the deployment is created and again whenever a deploy of the
\* complete stack carries a build other than the one last deployed.
SyncAssets ==
    /\ phase = "create"
    /\ deployPc = "idle"
    /\ Refs(BucketDeployment.id) \subseteq exists
    /\ completed # build
    /\ BucketDeployment.id \in exists => StackComplete
    /\ objects' = build
    /\ bucketGrants' = bucketGrants \cup {DeploymentHandlerGrant}
    /\ deployPc' = "uploaded"
    /\ UNCHANGED <<phase, exists, orphaned, inlinePolicies, routes, bucketPublic,
                   build, completed, edgeCache>>

\* BucketDeployment, second step: with a distribution bound, every path of
\* distribution_paths is invalidated at the edge.
InvalidateCache ==
    /\ deployPc = "uploaded"
    /\ edgeCache' = IF BucketDeployment.distribution # "none"
                       /\ "/*" \in BucketDeployment.distribution_paths
                    THEN 0 ELSE edgeCache
    /\ deployPc' = "invalidated"
    /\ UNCHANGED <<phase, exists, orphaned, inlinePolicies, routes, bucketPublic,
                   bucketGrants, build, objects, completed>>

\* BucketDeployment, last step: the sync reports completion to the engine.
CompleteDeployment ==
    /\ deployPc = "invalidated"
    /\ deployPc' = "idle"
    /\ completed' = objects
    /\ exists' = exists \cup {BucketDeployment.id}
    /\ UNCHANGED <<phase, orphaned, inlinePolicies, routes, bucketPublic, bucketGrants,
                   build, objects, edgeCache>>

\* A deploy of the complete stack with a new frontend build.
Redeploy ==
    /\ phase = "create"
    /\ StackComplete
    /\ deployPc = "idle"
    /\ completed = build
    /\ build < MaxBuilds
    /\ build' = build + 1
    /\ UNCHANGED <<phase, exists, orphaned, inlinePolicies, routes, bucketPublic,
                   bucketGrants, deployPc, objects, completed, edgeCache>>

\* Whether the Distribution can fetch from its origin: the Bucket holds the
\* site and the origin access identity may read it.
OriginReadable ==
    /\ Distribution.origin \in exists
    /\ objects # 0
    /\ Distribution.origin_access_identity \in ObjectReaders

\* What the Distribution answers a viewer with: the cached copy when it has
\* one, otherwise what it fetches from the Bucket (0: an error, no content).
Response ==
    IF edgeCache # 0 THEN edgeCache
    ELSE IF OriginReadable THEN objects
    ELSE 0

\* A viewer asks the Distribution for the site: a cached copy is answered as
\* it is; otherwise the edge fetches from the Bucket and caches what it got.
ViewerRequest ==
    /\ Distribution.id \in exists
    /\ edgeCache' = Response
    /\ UNCHANGED <<phase, exists, orphaned, inlinePolicies, routes, bucketPublic,
                   bucketGrants, build, deployPc, objects, completed>>

\* A cached copy reaches the end of its time to live.
CacheExpire ==
    /\ Distribution.id \in exists
    /\ edgeCache # 0
    /\ edgeCache' = 0
    /\ UNCHANGED <<phase, exists, orphaned, inlinePolicies, routes, bucketPublic,
                   bucketGrants, build, deployPc, objects, completed>>

\* The stack is deleted: from a complete stack with no deploy under way.
DestroyStack ==
    /\ phase = "create"
    /\ StackComplete
    /\ deployPc = "idle"
    /\ phase' = "delete"
    /\ UNCHANGED <<exists, orphaned, inlinePolicies, routes, bucketPublic, bucketGrants,
                   build, deployPc, objects, completed, edgeCache>>

\* auto_delete_objects: on teardown the bucket's objects are purged.
AutoDeleteObjects ==
    /\ phase = "delete"
    /\ ReactApplicationBucket.auto_delete_objects
    /\ ReactApplicationBucket.id \in Managed
    /\ objects # 0
    /\ objects' = 0
    /\ UNCHANGED <<phase, exists, orphaned, inlinePolicies, routes, bucketPublic,
                   bucketGrants, build, deployPc, completed, edgeCache>>

\* The engine removes a resource once nothing the stack still manages references
\* it. A resource whose removal policy is RETAIN leaves the stack and stays; a
\* bucket is deleted only when it is empty.
DeleteResource(r) ==
    /\ phase = "delete"
    /\ r \in Managed
    /\ \A d \in Managed : r \notin Refs(d)
    /\ IF RemovalPolicy(r) = "DESTROY"
       THEN /\ r = ReactApplicationBucket.id => objects = 0
            /\ exists' = exists \ {r}
            /\ orphaned' = orphaned
            /\ inlinePolicies' =
                  IF r = "FoodSuggestionFunctionPolicy"
                  THEN [inlinePolicies EXCEPT ![FoodSuggestionFunctionRole.id] =
                           @ \ {FoodSuggestionFunctionPolicy}]
                  ELSE inlinePolicies
            /\ routes' =
                  IF r = AwsSiteApiGateway.id THEN {b \in routes : b.path # "/"}
                  ELSE IF r \in ChildResources THEN {b \in routes : b.path # r}
                  ELSE routes
            /\ bucketGrants' =
                  IF r = "BucketReadGrant" THEN bucketGrants \ {OriginAccessIdentityGrant}
                  ELSE IF r = BucketDeployment.id THEN bucketGrants \ {DeploymentHandlerGrant}
                  ELSE IF r = ReactApplicationBucket.id THEN {}
                  ELSE bucketGrants
            /\ bucketPublic' = IF r = ReactApplicationBucket.id THEN FALSE ELSE bucketPublic
            /\ edgeCache' = IF r = Distribution.id THEN 0 ELSE edgeCache
       ELSE /\ orphaned' = orphaned \cup {r}
            /\ UNCHANGED <<exists, inlinePolicies, routes, bucketGrants, bucketPublic,
                           edgeCache>>
    /\ UNCHANGED <<phase, build, deployPc, objects, completed>>

\* The engine's work on a deploy.
Provision ==
    \/ \E t \in TableIds : CreateTable(t)
    \/ CreateLambdaLayer
    \/ CreateRole
    \/ CreatePolicy
    \/ CreateFunction
    \/ CreateRestApi
    \/ \E path \in ChildResources : CreateApiResource(path)
    \/ CreateBucket
    \/ CreateOriginAccessIdentity
    \/ GrantRead
    \/ CreateDistribution
    \/ SyncAssets
    \/ InvalidateCache
    \/ CompleteDeployment
    \/ \E o \in OutputIds : CreateOutput(o)

\* The engine's work on a teardown.
Teardown ==
    \/ AutoDeleteObjects
    \/ \E r \in Declared : DeleteResource(r)

Next ==
    \/ Provision
    \/ Redeploy
    \/ ViewerRequest
    \/ CacheExpire
    \/ DestroyStack
    \/ Teardown

Spec == Init /\ [][Next]_vars

\* The engine does not stop while it has work: a deploy runs to the complete
\* stack and a teardown runs until nothing is left that it can delete.
FairSpec == Spec /\ WF_vars(Provision) /\ WF_vars(Teardown)

-----------------------------------------------------------------------------
(* Properties *)

\* The inline policy documents in effect on the function's role.
FunctionPolicies == inlinePolicies[FoodSuggestionFunction.role]

\* The statements of those documents.
FunctionStatements == UNION {p.statements : p \in FunctionPolicies}

\* The table names the function's inline policy grants.
GrantedTableNames ==
    {ArnTableName(a) : a \in UNION {s.resources : s \in FunctionStatements}}

\* The resources of one kind that exist.
Existing(kind) == {r \in exists : Kind(r) = kind}

\* C1: every table ARN in the resources of the function's inline policy
\* statement names a table the stack declares (no over-grant).
C1_NoOverGrant == GrantedTableNames \subseteq TableNames

\* C2: the deployed stack has exactly one Function, one RestApi with exactly
\* one child resource, one Bucket, one Distribution and exactly 3 Tables,
\* Foods, Users and Metadata.
C2_ResourceCounts ==
    StackComplete /\ phase = "create" =>
        /\ Cardinality(Existing("Function")) = 1
        /\ Cardinality(Existing("RestApi")) = 1
        /\ Cardinality(Existing("ApiResource")) = 1
        /\ Cardinality(Existing("Bucket")) = 1
        /\ Cardinality(Existing("Distribution")) = 1
        /\ Cardinality(Existing("Table")) = 3
        /\ {t.table_name : t \in {u \in Tables : u.id \in exists}} = DocstringTables

\* The four methods of the claim.
FourMethods == {"GET", "PUT", "DELETE", "POST"}

\* The paths of the deployed API and the methods bound on a path.
DeployedPaths == {b.path : b \in routes}

MethodsOn(path) == {b.method : b \in {c \in routes : c.path = path}}

\* C3 as stated: every API resource of the RestApi declares exactly the four
\* methods GET, PUT, DELETE, POST, and every method of every resource is bound
\* to the Function.
C3_ExactlyFourMethods ==
    /\ \A path \in DeployedPaths : MethodsOn(path) = FourMethods
    /\ \A b \in routes : b.integration = FoodSuggestionFunction.id

\* C3 amended: every child resource of the RestApi declares the four methods
\* GET, PUT, DELETE, POST, each bound to the Function, and besides them only
\* the CORS preflight method OPTIONS; the root declares OPTIONS alone; every
\* OPTIONS method is bound to a mock integration, every other method to the
\* Function.
C3_FourMethodsAndPreflight ==
    /\ \A path \in DeployedPaths :
          MethodsOn(path) = IF path = "/" THEN {"OPTIONS"}
                            ELSE FourMethods \cup {"OPTIONS"}
    /\ \A b \in routes :
          b.integration = IF b.method = "OPTIONS" THEN "Mock"
                          ELSE FoodSuggestionFunction.id

\* The API is deployed with its child resource.
C3_Witness ==
    /\ "/food_suggestion" \in DeployedPaths
    /\ "/" \in DeployedPaths
    /\ [path |-> "/food_suggestion", method |-> "POST",
        integration |-> "FoodSuggestionFunction"] \in routes

\* C4 as stated: the Bucket is never publicly readable and the origin access
\* identity is the only principal with read access to it.
C4_OnlyIdentityReads ==
    /\ ~bucketPublic
    /\ ObjectReaders \subseteq {"OriginAccessIdentity"}

\* C4 amended: the Bucket is never publicly readable, the origin access
\* identity is the only principal granted read-only access to it, and the only
\* other principal that can read its objects is the BucketDeployment's
\* handler, which holds a read-write grant on its destination bucket.
C4_PrivateBucketGrants ==
    /\ ~bucketPublic
    /\ \A g \in bucketGrants :
          g.actions = BucketReadActions => g.principal = "OriginAccessIdentity"
    /\ ObjectReaders \subseteq {"OriginAccessIdentity", "BucketDeploymentHandler"}
    /\ \A g \in bucketGrants :
          g.principal = "BucketDeploymentHandler" => g.actions = BucketReadWriteActions

\* The Bucket exists, holds the site, and both grants are in place.
C4_Witness ==
    /\ ReactApplicationBucket.id \in exists
    /\ objects # 0
    /\ ObjectReaders = {"OriginAccessIdentity", "BucketDeploymentHandler"}

\* C5: the BucketDeployment is bound to the Distribution and invalidates /*
\* in the same sync, and the Distribution never serves a build older than the
\* one uploaded by the latest completed deploy, after any number of redeploys.
C5_NeverStale ==
    /\ BucketDeployment.distribution = Distribution.id
    /\ "/*" \in BucketDeployment.distribution_paths
    /\ Distribution.id \in exists /\ Response # 0 => Response >= completed

\* A redeploy has completed and the edge holds the redeployed build.
C5_Witness ==
    /\ completed > 1
    /\ deployPc = "idle"
    /\ edgeCache = completed

\* The six data-plane actions of the claim.
SixActions ==
    {"dynamodb:GetItem", "dynamodb:PutItem", "dynamodb:UpdateItem",
     "dynamodb:DeleteItem", "dynamodb:Scan", "dynamodb:Query"}

\* C6: the inline policy on the function's role has no wildcard resource, its
\* action set is exactly GetItem, PutItem, UpdateItem, DeleteItem, Scan, Query,
\* and it permits no administrative action on any table.
C6_MinimalPolicy ==
    \A s \in FunctionStatements :
        /\ \A a \in s.resources : ~IsWildcard(a)
        /\ s.actions = SixActions
        /\ s.actions \cap {"dynamodb:*", "dynamodb:CreateTable", "dynamodb:DeleteTable",
                           "dynamodb:UpdateTable", "*"} = {}

\* The policy is in effect on the role of the function, which exists.
C6_Witness ==
    /\ FoodSuggestionFunction.id \in exists
    /\ FunctionStatements # {}

\* The Tables and the Bucket of the stack that exist.
StorageLeft == exists \cap (TableIds \cup {ReactApplicationBucket.id})

\* C7: every Table and the Bucket have removal policy destroy, the Bucket
\* purges its objects, and a teardown, started with uploaded objects in the
\* Bucket or not, eventually leaves no Table and no Bucket of the stack.
C7_TeardownLeavesNothing ==
    /\ [](/\ \A t \in Tables : t.removal_policy = "DESTROY"
          /\ ReactApplicationBucket.removal_policy = "DESTROY"
          /\ ReactApplicationBucket.auto_delete_objects)
    /\ (phase = "delete") ~> (StorageLeft = {})

\* A teardown has removed every Table and the Bucket.
C7_Witness ==
    /\ phase = "delete"
    /\ StorageLeft = {}
    /\ completed # 0

\* C8 as stated: during provisioning every Table and the role with its inline
\* policy attached exist before the Function, and the Function before the
\* RestApi and its methods.
C8_StorageAndAccessBeforeFunction ==
    phase = "create" =>
        /\ FoodSuggestionFunction.id \in exists =>
              /\ TableIds \subseteq exists
              /\ FoodSuggestionFunction.role \in exists
              /\ FunctionPolicies # {}
        /\ AwsSiteApiGateway.id \in exists => FoodSuggestionFunction.id \in exists
        /\ routes # {} => FoodSuggestionFunction.id \in exists

\* C8 amended: during provisioning the role (and the layer) exist before the
\* Function, and the Function before the RestApi and its methods; the Tables
\* and the inline policy are not ordered with respect to the Function.
C8_RoleBeforeFunctionBeforeApi ==
    phase = "create" =>
        /\ FoodSuggestionFunction.id \in exists =>
              /\ FoodSuggestionFunction.role \in exists
              /\ FoodSuggestionFunction.layers \subseteq exists
        /\ AwsSiteApiGateway.id \in exists => FoodSuggestionFunction.id \in exists
        /\ routes # {} => FoodSuggestionFunction.id \in exists

\* The API and its methods exist, on a Function that exists.
C8_Witness ==
    /\ phase = "create"
    /\ "/food_suggestion" \in exists
    /\ FoodSuggestionFunction.id \in exists

\* The asset sync has started: an object is uploaded or an invalidation requested.
SyncStarted == objects # 0 \/ deployPc # "idle"

\* The part of C9 that holds: no upload and no invalidation before the Bucket
\* and the Distribution both exist, and no Distribution before the Bucket and
\* the origin access identity.
PipelineOrder ==
    /\ SyncStarted =>
          {ReactApplicationBucket.id, Distribution.id} \subseteq exists
    /\ Distribution.id \in exists =>
          {ReactApplicationBucket.id, "OriginAccessIdentity"} \subseteq exists

\* C9 as stated: the pipeline is provisioned strictly in the order Bucket,
\* origin access identity with its read grant, Distribution, BucketDeployment.
C9_StrictPipelineOrder ==
    phase = "create" =>
        /\ "OriginAccessIdentity" \in exists => ReactApplicationBucket.id \in exists
        /\ Distribution.id \in exists =>
              {"OriginAccessIdentity", "BucketReadGrant"} \subseteq exists
        /\ PipelineOrder

\* C9 amended: in every provisioning run no object is uploaded and no
\* invalidation requested before the Bucket and the Distribution both exist,
\* the Distribution is never created before the Bucket and the origin access
\* identity, and the read grant never before those two; beyond that the
\* order is free.
C9_PipelineOrder ==
    phase = "create" =>
        /\ PipelineOrder
        /\ "BucketReadGrant" \in exists =>
              {ReactApplicationBucket.id, "OriginAccessIdentity"} \subseteq exists

\* The first deploy has uploaded the site and invalidated the cache.
C9_Witness ==
    /\ phase = "create"
    /\ deployPc = "invalidated"
    /\ completed = 0
    /\ objects # 0

\* The declarations reachable from r along at most n references.
RECURSIVE RefsWithin(_, _)
RefsWithin(r, n) ==
    IF n = 0 THEN {}
    ELSE Refs(r) \cup UNION {RefsWithin(d, n - 1) : d \in Refs(r)}

Acyclic == \A r \in Declared : r \notin RefsWithin(r, Cardinality(Declared))

ReferencesDeclared == \A e \in References : e[1] \in Declared /\ e[2] \in Declared

\* The engine has a step to take on the deploy.
CanProgress ==
    \/ \E r \in Declared : Creatable(r)
    \/ deployPc # "idle"

\* C10: the reference graph is acyclic and closed under references, so the
\* engine never deadlocks on a deploy and eventually every declared resource
\* and the three outputs exist.
C10_DeployCompletes ==
    /\ [](Acyclic /\ ReferencesDeclared)
    /\ [](phase = "create" /\ ~StackComplete => CanProgress)
    /\ <>(StackComplete /\ OutputIds \subseteq exists)

\* The complete stack, outputs included.
C10_Witness ==
    /\ StackComplete
    /\ {"CloudFrontURL", "ApiUrl", "ApiResourcePath"} \subseteq exists
    /\ phase = "create"

====
